---- MODULE Spec2Model ----
(***************************************************************************)
(* The RTF embedded-object extractor of libclamav (src/libclamav/rtf.c):   *)
(* the group stack, the lexer of cli_scanrtf, the action dispatcher and    *)
(* the objdata extractor, with the host (allocator, temp files, writes,    *)
(* unlink, downstream scanners) as a nondeterministic environment.         *)
(*                                                                         *)
(* Bytes of the document are one-character strings; decoded bytes are the  *)
(* integers 0..255.  A size_t that the code only increments and decrements *)
(* (stack.elements) is held as the integer representative of its value     *)
(* modulo 2^64: a negative representative is a wrapped (huge) size_t.      *)
(***************************************************************************)
EXTENDS Integers, Sequences, FiniteSets, TLC

(* ------------------------------ bounds -------------------------------- *)
\* fragments the environment may append to a free-form document
MaxFrags == 4
\* chunk boundaries of the byte view that may fall inside a run of data
MaxSplits == 1
\* number of pieces a hex stream is cut into for the decoder specification
MaxPieces == 3
\* length of the hex streams of the decoder specification
MaxStream == 4
MaxCallers == 2
MaxCerts == 2

(* --------------------------- character classes ------------------------ *)
Digits == {"0", "1", "2", "3", "4", "5", "6", "7", "8", "9"}
LowerHex == {"a", "b", "c", "d", "e", "f"}
UpperHex == {"A", "B", "C", "D", "E", "F"}
Letters == LowerHex \cup UpperHex \cup
           {"g", "h", "i", "j", "k", "l", "m", "n", "o", "p", "q", "r", "s",
            "t", "u", "v", "w", "x", "y", "z", "Z"}
Spaces == {" "}

isalpha(c) == c \in Letters
isdigit(c) == c \in Digits
isspace(c) == c \in Spaces
isxdigit(c) == c \in Digits \cup LowerHex \cup UpperHex

\* main_symbols[c] of cli_scanrtf
main_symbols(c) == c \in {"{", "}", "\\"}

hextable(c) ==
    CASE c = "0" -> 0 [] c = "1" -> 1 [] c = "2" -> 2 [] c = "3" -> 3
      [] c = "4" -> 4 [] c = "5" -> 5 [] c = "6" -> 6 [] c = "7" -> 7
      [] c = "8" -> 8 [] c = "9" -> 9
      [] c \in {"a", "A"} -> 10 [] c \in {"b", "B"} -> 11
      [] c \in {"c", "C"} -> 12 [] c \in {"d", "D"} -> 13
      [] c \in {"e", "E"} -> 14 [] c \in {"f", "F"} -> 15
      [] OTHER -> 0

DigitVal(c) == hextable(c)

(* ------------------------------ arithmetic ---------------------------- *)
Min(a, b) == IF a < b THEN a ELSE b

\* F applied to the value of e.  The loops below hand their state on through
\* With, so that each pass is evaluated once however TLC evaluates a LET
\* (it evaluates the definitions of a LET at each use when it computes
\* ENABLED).
With(e, F(_)) == CHOOSE r \in {F(x) : x \in {e}} : TRUE

RECURSIVE BitOr(_, _)
BitOr(a, b) ==
    IF a = 0 THEN b
    ELSE IF b = 0 THEN a
    ELSE 2 * BitOr(a \div 2, b \div 2) + (IF a % 2 = 1 \/ b % 2 = 1 THEN 1 ELSE 0)

RECURSIVE Pow2(_)
Pow2(n) == IF n = 0 THEN 1 ELSE 2 * Pow2(n - 1)

\* (x << n) of a decoded byte
Shl(x, n) == x * Pow2(n)

\* desc_len is a size_t that is put together from four bytes, so it is below
\* 2^32; it is held as its top byte hi and its low 24 bits lo, so that every
\* value of the field is represented exactly.
LOW_BITS == 24
LowMod == Pow2(LOW_BITS)

U32(n) == [hi |-> n \div LowMod, lo |-> n % LowMod]

\* v | (byte << (8 * k)), k in 0..3
U32OrByte(v, byte, k) ==
    IF 8 * k < LOW_BITS THEN [v EXCEPT !.lo = BitOr(@, Shl(byte, 8 * k))]
    ELSE [v EXCEPT !.hi = BitOr(@, byte)]

\* v > n, v - n (for n <= v) and min(n, v), n below 2^24
U32Greater(v, n) == v.hi > 0 \/ v.lo > n
U32Minus(v, n) ==
    IF v.lo >= n THEN [v EXCEPT !.lo = @ - n]
    ELSE [hi |-> v.hi - 1, lo |-> v.lo + LowMod - n]
U32Min(n, v) == IF U32Greater(v, n) THEN n ELSE v.lo

\* cli_writeint32: the four little-endian bytes of a 32-bit value
cli_writeint32(v) ==
    << v.lo % 256, (v.lo \div 256) % 256, (v.lo \div 65536) % 256, v.hi >>

(* ------------- signed 64-bit parameter, in decimal digits ------------- *)
\* A magnitude is its decimal digits, most significant first, no leading
\* zero (<< >> is 0); a parameter is a magnitude and a sign.
INT64_MAX == << 9, 2, 2, 3, 3, 7, 2, 0, 3, 6, 8, 5, 4, 7, 7, 5, 8, 0, 7 >>

RECURSIVE DecNorm(_)
DecNorm(a) == IF a # << >> /\ Head(a) = 0 THEN DecNorm(Tail(a)) ELSE a

RECURSIVE DecLexGreater(_, _)
DecLexGreater(a, b) ==
    IF a = << >> THEN FALSE
    ELSE IF Head(a) # Head(b) THEN Head(a) > Head(b)
    ELSE DecLexGreater(Tail(a), Tail(b))

DecGreater(a, b) ==
    \/ Len(a) > Len(b)
    \/ Len(a) = Len(b) /\ DecLexGreater(a, b)

\* a / 10 and a * 10 + d
DecDivTen(a) == SubSeq(a, 1, Len(a) - 1)
DecTimesTenPlus(a, d) == DecNorm(Append(a, d))

\* INT64_MAX - d for a digit d
Int64MaxMinus(d) ==
    IF d <= 7 THEN Append(DecDivTen(INT64_MAX), 7 - d)
    ELSE SubSeq(INT64_MAX, 1, 16) \o << 7, 9, 17 - d >>

ParamZero == [neg |-> FALSE, mag |-> << >>]

\* a test that has only the first comparison of lines 646-647
ParamOverflows_partial(param, d) ==
    DecGreater(param.mag, DecDivTen(INT64_MAX))

\* the test of lines 646-647: would appending digit d leave the int64 range
ParamOverflows(param, d) ==
    \/ DecGreater(param.mag, DecDivTen(INT64_MAX))
    \/ DecGreater(DecTimesTenPlus(param.mag, 0), Int64MaxMinus(d))

(* ------------------------------ result codes -------------------------- *)
CL_CLEAN == "CL_CLEAN"
CL_VIRUS == "CL_VIRUS"
CL_EMEM == "CL_EMEM"
CL_ETMPDIR == "CL_ETMPDIR"
CL_ECREAT == "CL_ECREAT"
CL_EWRITE == "CL_EWRITE"
CL_EUNLINK == "CL_EUNLINK"
CL_EOPEN == "CL_EOPEN"
\* the non-clean result of a failed tableInsert in load_actions
TABLE_FAIL == "-1"

(* ----------------------------- parser frames -------------------------- *)
RTF_OBJECT == 0
RTF_OBJECT_DATA == 1
NO_ACTION == -1

\* the rtf_object_data a frame's cb_data points to; live = FALSE is NULL
NoData ==
    [live |-> FALSE, name |-> FALSE, fd |-> -1, partial |-> 0,
     has_partial |-> FALSE, internal_state |-> "WAIT_MAGIC",
     desc_alloc |-> FALSE, desc_name |-> << >>, desc_len |-> U32(0), bread |-> 0,
     file |-> << >>]

\* controlword holds the bytes at indexes below controlword_cnt: the bytes at
\* and above it are overwritten before they are read.
base_state ==
    [cb_begin |-> FALSE, cb_process |-> FALSE, cb_end |-> FALSE,
     cb_data |-> NoData, default_elements |-> 0, controlword_cnt |-> 0,
     controlword_param |-> ParamZero, parse_state |-> "PARSE_MAIN",
     controlword_param_sign |-> 0, encounteredTopLevel |-> 0,
     controlword |-> << >>]

init_rtf_state == [base_state EXCEPT !.parse_state = "PARSE_MAIN", !.controlword_cnt = 0]

compare_state(a, b) ==
    /\ a.parse_state = b.parse_state
    /\ a.encounteredTopLevel = b.encounteredTopLevel
    /\ a.cb_begin = b.cb_begin
    /\ a.cb_process = b.cb_process
    /\ a.cb_end = b.cb_end
    /\ a.cb_data.live = b.cb_data.live

(* ------------------------------ group stack --------------------------- *)
STACK_INITIAL == 16
STACK_GROW == 128

\* states holds the stack_cnt frames in use; elements is the representative
\* of the size_t modulo 2^64.
InitStack ==
    [states |-> << >>, elements |-> 0, stack_cnt |-> 0,
     stack_size |-> STACK_INITIAL, warned |-> FALSE]

\* a push_state whose new frame does not carry encounteredTopLevel over
push_state_noinherit(stack, state, reallocOK) ==
    LET counted == [stack EXCEPT !.elements = @ + 1] IN
    IF compare_state(state, base_state)
    THEN [stack |-> counted,
          state |-> [state EXCEPT !.default_elements = @ + 1],
          ret |-> CL_CLEAN, grew |-> FALSE]
    ELSE LET full == counted.stack_cnt >= counted.stack_size
             sized == IF full THEN [counted EXCEPT !.stack_size = @ + STACK_GROW]
                      ELSE counted
         IN IF full /\ ~reallocOK
            THEN [stack |-> sized, state |-> state, ret |-> CL_EMEM, grew |-> TRUE]
            ELSE [stack |-> [sized EXCEPT !.states = Append(@, state),
                                          !.stack_cnt = @ + 1],
                  state |-> base_state,
                  ret |-> CL_CLEAN, grew |-> full]

\* a push_state that stores the frame whether or not it is the default one
push_state_storeall(stack, state, reallocOK) ==
    LET counted == [stack EXCEPT !.elements = @ + 1]
        full == counted.stack_cnt >= counted.stack_size
        sized == IF full THEN [counted EXCEPT !.stack_size = @ + STACK_GROW]
                 ELSE counted
    IN IF full /\ ~reallocOK
       THEN [stack |-> sized, state |-> state, ret |-> CL_EMEM, grew |-> TRUE]
       ELSE [stack |-> [sized EXCEPT !.states = Append(@, state),
                                     !.stack_cnt = @ + 1],
             state |-> [base_state EXCEPT
                           !.encounteredTopLevel = state.encounteredTopLevel,
                           !.default_elements = 0],
             ret |-> CL_CLEAN, grew |-> full]

\* a push_state whose new frame keeps the callbacks and the context
push_state_keepcb(stack, state, reallocOK) ==
    LET counted == [stack EXCEPT !.elements = @ + 1] IN
    IF compare_state(state, base_state)
    THEN [stack |-> counted,
          state |-> [state EXCEPT !.default_elements = @ + 1],
          ret |-> CL_CLEAN, grew |-> FALSE]
    ELSE LET full == counted.stack_cnt >= counted.stack_size
             sized == IF full THEN [counted EXCEPT !.stack_size = @ + STACK_GROW]
                      ELSE counted
         IN IF full /\ ~reallocOK
            THEN [stack |-> sized, state |-> state, ret |-> CL_EMEM, grew |-> TRUE]
            ELSE [stack |-> [sized EXCEPT !.states = Append(@, state),
                                          !.stack_cnt = @ + 1],
                  state |-> [state EXCEPT !.default_elements = 0],
                  ret |-> CL_CLEAN, grew |-> full]

\* push_state; reallocOK is the outcome of cli_realloc2 should the stack grow
push_state(stack, state, reallocOK) ==
    LET counted == [stack EXCEPT !.elements = @ + 1] IN
    IF compare_state(state, base_state)
    THEN [stack |-> counted,
          state |-> [state EXCEPT !.default_elements = @ + 1],
          ret |-> CL_CLEAN, grew |-> FALSE]
    ELSE LET full == counted.stack_cnt >= counted.stack_size
             sized == IF full THEN [counted EXCEPT !.stack_size = @ + STACK_GROW]
                      ELSE counted
         IN IF full /\ ~reallocOK
            THEN [stack |-> sized, state |-> state, ret |-> CL_EMEM, grew |-> TRUE]
            ELSE [stack |-> [sized EXCEPT !.states = Append(@, state),
                                          !.stack_cnt = @ + 1],
                  state |-> [base_state EXCEPT
                                !.encounteredTopLevel = state.encounteredTopLevel,
                                !.default_elements = 0],
                  ret |-> CL_CLEAN, grew |-> full]

\* a pop_state that reports the pop from an empty stack as an error
pop_state_strict(stack, state) ==
    LET counted == [stack EXCEPT !.elements = @ - 1] IN
    IF state.default_elements # 0
    THEN [stack |-> counted,
          state |-> [base_state EXCEPT
                        !.default_elements = state.default_elements - 1,
                        !.encounteredTopLevel = state.encounteredTopLevel],
          ret |-> CL_CLEAN]
    ELSE IF counted.stack_cnt = 0
    THEN [stack |-> [counted EXCEPT !.warned = TRUE],
          state |-> base_state, ret |-> CL_EMEM]
    ELSE [stack |-> [counted EXCEPT !.states = SubSeq(@, 1, Len(@) - 1),
                                    !.stack_cnt = @ - 1],
          state |-> counted.states[counted.stack_cnt],
          ret |-> CL_CLEAN]

\* a pop_state that takes a default frame off without counting it down
pop_state_keepcount(stack, state) ==
    LET counted == [stack EXCEPT !.elements = @ - 1] IN
    IF state.default_elements # 0
    THEN [stack |-> counted,
          state |-> [base_state EXCEPT
                        !.default_elements = state.default_elements,
                        !.encounteredTopLevel = state.encounteredTopLevel],
          ret |-> CL_CLEAN]
    ELSE IF counted.stack_cnt = 0
    THEN [stack |-> [counted EXCEPT !.warned = TRUE],
          state |-> base_state, ret |-> CL_CLEAN]
    ELSE [stack |-> [counted EXCEPT !.states = SubSeq(@, 1, Len(@) - 1),
                                    !.stack_cnt = @ - 1],
          state |-> counted.states[counted.stack_cnt],
          ret |-> CL_CLEAN]

pop_state(stack, state) ==
    LET counted == [stack EXCEPT !.elements = @ - 1] IN
    IF state.default_elements # 0
    THEN [stack |-> counted,
          state |-> [base_state EXCEPT
                        !.default_elements = state.default_elements - 1,
                        !.encounteredTopLevel = state.encounteredTopLevel],
          ret |-> CL_CLEAN]
    ELSE IF counted.stack_cnt = 0
    THEN [stack |-> [counted EXCEPT !.warned = TRUE],
          state |-> base_state, ret |-> CL_CLEAN]
    ELSE [stack |-> [counted EXCEPT !.states = SubSeq(@, 1, Len(@) - 1),
                                    !.stack_cnt = @ - 1],
          state |-> counted.states[counted.stack_cnt],
          ret |-> CL_CLEAN]

(* --------------------------- objdata extractor ------------------------ *)
rtf_data_magic == << 1, 5, 0, 0, 2, 0, 0, 0 >>
rtf_data_magic_len == Len(rtf_data_magic)

\* What the host has handed out and what the scanners were given:
\*   ctxs, names, descs  live allocations of rtf_object_data, temp-file
\*                       paths and description buffers
\*   fds, files          open descriptors and temp files on disk
\*   created             temp files created so far
\*   scans               every downstream scanner call, in order
\*   threat              a scanner call has returned a non-clean code
\*   fault               a host operation has failed
\*   last                the latest decode_and_scan: scanner code, whether
\*                       unlink failed, and the code it returned
\*   anomalies           parser-level anomalies logged so far
\*   dir, tempname, stackbuf, table
\*                       the temp directory exists; its name, the stack
\*                       buffer and the action table are allocated
\*   asked               the host operations the latest step called on
NoDecode == [called |-> FALSE, scan |-> CL_CLEAN, unlinkFailed |-> FALSE, ret |-> CL_CLEAN]

InitWorld ==
    [ctxs |-> 0, names |-> 0, descs |-> 0, fds |-> 0, files |-> 0, created |-> 0,
     scans |-> << >>, threat |-> FALSE, fault |-> FALSE, last |-> NoDecode,
     anomalies |-> {}, dir |-> FALSE, tempname |-> FALSE, stackbuf |-> FALSE,
     table |-> FALSE, asked |-> {}]

\* The outcomes the host may produce during one callback: allocation,
\* temp-file creation, the prefix write, the payload write, unlink, the
\* scanner's code, and the byte found in uninitialised scratch memory.
OkOracle ==
    [mem |-> TRUE, tmp |-> TRUE, wrprefix |-> TRUE, wrdata |-> TRUE,
     unlink |-> TRUE, scan |-> CL_CLEAN, stale |-> 0]

Asked(w, ops) == [w EXCEPT !.asked = @ \cup ops]

rtf_object_begin(state, w0, orc) ==
    LET w == Asked(w0, {"mem"}) IN
    IF ~orc.mem
    THEN [state |-> state, w |-> [w EXCEPT !.fault = TRUE], ret |-> CL_EMEM]
    ELSE [state |-> [state EXCEPT !.cb_data = [NoData EXCEPT !.live = TRUE]],
          w |-> [w EXCEPT !.ctxs = @ + 1],
          ret |-> CL_CLEAN]

\* a decode_and_scan that leaves data->fd as it was
decode_and_scan_keepfd(data, ctx, w0, orc) ==
    LET open == data.fd > 0
        w == Asked(w0, (IF open THEN {"scan"} ELSE {})
                       \cup (IF data.name /\ ~ctx.keeptmp THEN {"unlink"} ELSE {}))
        scanner == IF data.bread = 1 THEN "cli_scan_ole10" ELSE "cli_magic_scandesc"
        ret1 == IF open THEN orc.scan ELSE CL_CLEAN
        w1 == IF open
              THEN [w EXCEPT !.scans = Append(@, [scanner |-> scanner,
                                                  content |-> data.file,
                                                  ret |-> orc.scan]),
                             !.threat = @ \/ orc.scan # CL_CLEAN,
                             !.fds = @ - 1]
              ELSE w
        unlinks == data.name /\ ~ctx.keeptmp
        unlinkFailed == unlinks /\ ~orc.unlink
        ret2 == IF unlinkFailed THEN CL_EUNLINK ELSE ret1
        w2 == [w1 EXCEPT !.files = IF unlinks /\ orc.unlink THEN @ - 1 ELSE @,
                         !.names = IF data.name THEN @ - 1 ELSE @,
                         !.fault = @ \/ unlinkFailed,
                         !.last = [called |-> TRUE, scan |-> ret1,
                                   unlinkFailed |-> unlinkFailed, ret |-> ret2]]
    IN [data |-> [data EXCEPT !.name = FALSE],
        w |-> w2,
        ret |-> ret2]

decode_and_scan(data, ctx, w0, orc) ==
    LET open == data.fd > 0
        w == Asked(w0, (IF open THEN {"scan"} ELSE {})
                       \cup (IF data.name /\ ~ctx.keeptmp THEN {"unlink"} ELSE {}))
        scanner == IF data.bread = 1 THEN "cli_scan_ole10" ELSE "cli_magic_scandesc"
        ret1 == IF open THEN orc.scan ELSE CL_CLEAN
        w1 == IF open
              THEN [w EXCEPT !.scans = Append(@, [scanner |-> scanner,
                                                  content |-> data.file,
                                                  ret |-> orc.scan]),
                             !.threat = @ \/ orc.scan # CL_CLEAN,
                             !.fds = @ - 1]
              ELSE w
        unlinks == data.name /\ ~ctx.keeptmp
        unlinkFailed == unlinks /\ ~orc.unlink
        ret2 == IF unlinkFailed THEN CL_EUNLINK ELSE ret1
        w2 == [w1 EXCEPT !.files = IF unlinks /\ orc.unlink THEN @ - 1 ELSE @,
                         !.names = IF data.name THEN @ - 1 ELSE @,
                         !.fault = @ \/ unlinkFailed,
                         !.last = [called |-> TRUE, scan |-> ret1,
                                   unlinkFailed |-> unlinkFailed, ret |-> ret2]]
    IN [data |-> [data EXCEPT !.fd = -1, !.name = FALSE],
        w |-> w2,
        ret |-> ret2]

\* out_data[k]: the scratch buffer holds the bytes decoded by this call; what
\* lies beyond them was never written
OutAt(buf, off, k, orc) ==
    IF off + k + 1 <= Len(buf) THEN buf[off + k + 1] ELSE orc.stale

OutRun(buf, off, n, orc) == [k \in 1..n |-> OutAt(buf, off, k - 1, orc)]

\* v |= out_data[i] << (8 * (bread + i)) for i in 0..n-1
RECURSIVE AccumulateLE(_, _, _, _, _, _)
AccumulateLE(v, buf, off, bread, n, orc) ==
    IF n = 0 THEN v
    ELSE U32OrByte(AccumulateLE(v, buf, off, bread, n - 1, orc),
                   OutAt(buf, off, n - 1, orc), bread + n - 1)

Going(d, off, cnt, w) ==
    [data |-> d, off |-> off, cnt |-> cnt, w |-> w, ret |-> CL_CLEAN, returned |-> FALSE]

Returning(d, off, cnt, w, ret) ==
    [data |-> d, off |-> off, cnt |-> cnt, w |-> w, ret |-> ret, returned |-> TRUE]

WaitMagic(d, buf, off, cnt, w, orc) ==
    LET n == IF d.bread < rtf_data_magic_len
             THEN Min(cnt, rtf_data_magic_len - d.bread) ELSE 0
        mismatch == \E i \in 0..(n - 1) :
                        rtf_data_magic[d.bread + i + 1] # OutAt(buf, off, i, orc)
        w1 == IF mismatch THEN [w EXCEPT !.anomalies = @ \cup {"magic"}] ELSE w
        bread == d.bread + n
    IN IF bread = rtf_data_magic_len
       THEN Going([d EXCEPT !.bread = 0, !.internal_state = "WAIT_DESC_LEN"],
                  off + n, cnt - n, w1)
       ELSE Going([d EXCEPT !.bread = bread], off, cnt - n, w1)

WaitDescLen(d, buf, off, cnt, w0, orc) ==
    LET v0 == IF d.bread = 0 THEN U32(0) ELSE d.desc_len
        n == IF d.bread < 4 THEN Min(cnt, 4 - d.bread) ELSE 0
        v == AccumulateLE(v0, buf, off, d.bread, n, orc)
        bread == d.bread + n
        w == IF bread = 4 THEN Asked(w0, {"mem"}) ELSE w0
    IN IF bread = 4
       THEN IF ~orc.mem
            THEN Returning([d EXCEPT !.bread = 0, !.desc_len = v,
                                     !.desc_alloc = FALSE, !.desc_name = << >>],
                           off + n, cnt - n, [w EXCEPT !.fault = TRUE], CL_EMEM)
            ELSE Going([d EXCEPT !.bread = 0, !.desc_len = v,
                                 !.desc_alloc = TRUE, !.desc_name = << >>,
                                 !.internal_state = "WAIT_DESC"],
                       off + n, cnt - n,
                       [w EXCEPT !.descs = @ + 1,
                                 !.anomalies = IF U32Greater(v, 64) THEN @ \cup {"desclen"} ELSE @])
       ELSE Going([d EXCEPT !.bread = bread, !.desc_len = v], off, cnt - n, w)

WaitDesc(d, buf, off, cnt, w, orc) ==
    LET more == U32Greater(d.desc_len, d.bread) /\ d.bread < 64
        n == IF more THEN Min(cnt, U32Min(64, d.desc_len) - d.bread) ELSE 0
        name == SubSeq(d.desc_name, 1, d.bread) \o OutRun(buf, off, n, orc)
        cnt1 == cnt - n
        off1 == off + n
        bread == d.bread + n
        d1 == [d EXCEPT !.bread = bread, !.desc_name = name]
        \* desc_len - bread, which is not negative
        left == U32Minus(d.desc_len, bread)
    IN IF U32Greater(d.desc_len, bread) /\ bread < 64
       THEN Returning(d1, off1, cnt1, w, CL_CLEAN)
       ELSE IF U32Greater(left, cnt1)
       THEN Returning([d1 EXCEPT !.desc_len = U32Minus(@, cnt1)], off1, cnt1, w, CL_CLEAN)
       ELSE IF ~U32Greater(d.desc_len, bread)
       THEN Going([d1 EXCEPT !.bread = 0, !.desc_alloc = FALSE, !.desc_name = << >>,
                             !.internal_state = "WAIT_ZERO"],
                  off1 + left.lo, cnt1 - left.lo, [w EXCEPT !.descs = @ - 1])
       ELSE Going(d1, off1, cnt1 - left.lo, w)

\* a WAIT_ZERO that leaves out_cnt as it is when fewer than 8 bytes are left
WaitZero_stuck(d, off, cnt, w) ==
    LET short == cnt < 8 - d.bread
        cnt1 == IF short THEN cnt ELSE cnt - (8 - d.bread)
        bread == IF short THEN d.bread ELSE 8
    IN IF bread = 8
       THEN Going([d EXCEPT !.bread = 0, !.internal_state = "WAIT_DATA_SIZE"],
                  off + 8, cnt1, w)
       ELSE Going([d EXCEPT !.bread = bread], off, cnt1, w)

WaitZero(d, off, cnt, w) ==
    LET short == cnt < 8 - d.bread
        cnt1 == IF short THEN 0 ELSE cnt - (8 - d.bread)
        \* bread += out_cnt is executed after out_cnt = 0
        bread == IF short THEN d.bread + cnt1 ELSE 8
    IN IF bread = 8
       THEN Going([d EXCEPT !.bread = 0, !.internal_state = "WAIT_DATA_SIZE"],
                  off + 8, cnt1, w)
       ELSE Going([d EXCEPT !.bread = bread], off, cnt1, w)

\* cli_gentempfd: a fresh path and an open descriptor, or a failure that
\* leaves neither
TEMP_FD == 3

WaitDataSize(d, buf, off, cnt, w0, orc) ==
    LET v0 == IF d.bread = 0 THEN U32(0) ELSE d.desc_len
        n == IF d.bread < 4 THEN Min(cnt, 4 - d.bread) ELSE 0
        v == AccumulateLE(v0, buf, off, d.bread, n, orc)
        bread == d.bread + n
        w == IF bread = 4 THEN Asked(w0, {"tmp"}) ELSE w0
    IN IF bread = 4
       THEN IF ~orc.tmp
            THEN Returning([d EXCEPT !.bread = 0, !.desc_len = v],
                           off + n, cnt - n, [w EXCEPT !.fault = TRUE], CL_ECREAT)
            ELSE Going([d EXCEPT !.bread = 0, !.desc_len = v, !.name = TRUE,
                                 !.fd = TEMP_FD, !.file = << >>,
                                 !.internal_state = "DUMP_DATA"],
                       off + n, cnt - n,
                       [w EXCEPT !.names = @ + 1, !.fds = @ + 1, !.files = @ + 1,
                                 !.created = @ + 1])
       ELSE Going([d EXCEPT !.bread = bread, !.desc_len = v], off, cnt - n, w)

\* a DUMP_DATA that flags a payload that is not OLE2 and writes no length
\* prefix for it
DumpData_noprefix(d, ctx, buf, off, cnt, w0, orc) ==
    LET out_want == U32Min(cnt, d.desc_len)
        first == d.bread = 0
        ole2 == OutAt(buf, off, 0, orc) = 208 /\ OutAt(buf, off, 1, orc) = 207
        w == Asked(w0, {"wrdata"}
                       \cup (IF first /\ off + 2 > Len(buf) THEN {"stale"} ELSE {}))
        bread == IF ~first THEN d.bread ELSE IF ole2 THEN 2 ELSE 1
        d1 == [d EXCEPT !.bread = bread]
    IN IF ~orc.wrdata
       THEN Returning([d1 EXCEPT !.desc_len = U32Minus(@, out_want)], off, cnt,
                      [w EXCEPT !.fault = TRUE], CL_EWRITE)
       ELSE LET d2 == [d1 EXCEPT !.desc_len = U32Minus(@, out_want),
                                 !.file = @ \o OutRun(buf, off, out_want, orc)]
                off2 == off + out_want
                cnt2 == cnt - out_want
            IN IF d2.desc_len = U32(0)
               THEN LET r == decode_and_scan(d2, ctx, w, orc)
                    IN IF r.ret # CL_CLEAN
                       THEN Returning(r.data, off2, cnt2, r.w, r.ret)
                       ELSE Going([r.data EXCEPT !.bread = 0,
                                                 !.internal_state = "WAIT_MAGIC"],
                                  off2, cnt2, r.w)
               ELSE Going(d2, off2, cnt2, w)

DumpData(d, ctx, buf, off, cnt, w0, orc) ==
    LET out_want == U32Min(cnt, d.desc_len)
        first == d.bread = 0
        ole2 == OutAt(buf, off, 0, orc) = 208 /\ OutAt(buf, off, 1, orc) = 207
        prefixed == first /\ ~ole2
        w == Asked(w0, {"wrdata"}
                       \cup (IF first /\ off + 2 > Len(buf) THEN {"stale", "wrprefix"} ELSE {})
                       \cup (IF prefixed THEN {"wrprefix"} ELSE {}))
        bread == IF ~first THEN d.bread ELSE IF ole2 THEN 2 ELSE 1
        d1 == [d EXCEPT !.bread = bread,
                        !.file = IF prefixed /\ orc.wrprefix
                                 THEN @ \o cli_writeint32(d.desc_len) ELSE @]
    IN IF prefixed /\ ~orc.wrprefix
       THEN Returning(d1, off, cnt, [w EXCEPT !.fault = TRUE], CL_EWRITE)
       ELSE IF ~orc.wrdata
       THEN Returning([d1 EXCEPT !.desc_len = U32Minus(@, out_want)], off, cnt,
                      [w EXCEPT !.fault = TRUE], CL_EWRITE)
       ELSE LET d2 == [d1 EXCEPT !.desc_len = U32Minus(@, out_want),
                                 !.file = @ \o OutRun(buf, off, out_want, orc)]
                off2 == off + out_want
                cnt2 == cnt - out_want
            IN IF d2.desc_len = U32(0)
               THEN LET r == decode_and_scan(d2, ctx, w, orc)
                    IN IF r.ret # CL_CLEAN
                       THEN Returning(r.data, off2, cnt2, r.w, r.ret)
                       ELSE Going([r.data EXCEPT !.bread = 0,
                                                 !.internal_state = "WAIT_MAGIC"],
                                  off2, cnt2, r.w)
               ELSE Going(d2, off2, cnt2, w)

\* one pass of the switch of lines 304-438
ObjectStep(d, ctx, buf, off, cnt, w, orc) ==
    CASE d.internal_state = "WAIT_MAGIC" -> WaitMagic(d, buf, off, cnt, w, orc)
      [] d.internal_state = "WAIT_DESC_LEN" -> WaitDescLen(d, buf, off, cnt, w, orc)
      [] d.internal_state = "WAIT_DESC" -> WaitDesc(d, buf, off, cnt, w, orc)
      [] d.internal_state = "WAIT_ZERO" -> WaitZero(d, off, cnt, w)
      [] d.internal_state = "WAIT_DATA_SIZE" -> WaitDataSize(d, buf, off, cnt, w, orc)
      [] d.internal_state = "DUMP_DATA" -> DumpData(d, ctx, buf, off, cnt, w, orc)
      [] OTHER -> Going(d, off, 0, w)

\* while (out_data && out_cnt): `passes` is the number of passes the model
\* follows before it reports the loop as not ending (hung)
RECURSIVE ObjectLoop(_, _, _, _, _, _, _, _)
ObjectLoop(d, ctx, buf, off, cnt, w, orc, passes) ==
    IF cnt = 0 THEN [data |-> d, w |-> w, ret |-> CL_CLEAN, hung |-> FALSE]
    ELSE IF passes = 0 THEN [data |-> d, w |-> w, ret |-> CL_CLEAN, hung |-> TRUE]
    ELSE With(ObjectStep(d, ctx, buf, off, cnt, w, orc),
              LAMBDA s :
                IF s.returned
                THEN [data |-> s.data, w |-> s.w, ret |-> s.ret, hung |-> FALSE]
                ELSE ObjectLoop(s.data, ctx, buf, s.off, s.cnt, s.w, orc, passes - 1))

\* the indexes (1-based) of the hex digits of input, in order: the bytes the
\* loops of lines 278-300 stop at
HexPositions(input) ==
    SelectSeq([i \in 1..Len(input) |-> i], LAMBDA i : isxdigit(input[i]))

\* the loop of lines 288-300 over the hex digits at the indexes pos: each
\* digit is shifted into the high nibble and joined with the next one; a last
\* digit without a partner is kept in partial
HexLoop(input, pos, out, d) ==
    LET n == Len(pos) \div 2
        bytes == [k \in 1..n |->
                    BitOr(Shl(hextable(input[pos[2 * k - 1]]), 4) % 256,
                          hextable(input[pos[2 * k]]))]
    IN [out |-> out \o bytes,
        data |-> IF Len(pos) % 2 = 1
                 THEN [d EXCEPT !.partial = Shl(hextable(input[pos[Len(pos)]]), 4) % 256,
                                !.has_partial = TRUE]
                 ELSE d]

\* a decoder that starts every call afresh, without the carried nibble
HexDecode_nocarry(d, input) ==
    HexLoop(input, HexPositions(input), << >>, [d EXCEPT !.has_partial = FALSE])

\* lines 277-300: the bytes this call decodes, and the carried nibble
HexDecode(d, input) ==
    With(HexPositions(input),
         LAMBDA pos :
           IF d.has_partial
           THEN IF pos # << >>
                THEN With(Tail(pos),
                          LAMBDA rest_pos :
                            HexLoop(input, rest_pos,
                                    << BitOr(d.partial, hextable(input[pos[1]])) >>,
                                    [d EXCEPT !.has_partial = FALSE]))
                ELSE [out |-> << >>, data |-> d]
           ELSE HexLoop(input, pos, << >>, d))

rtf_object_process(state, ctx, input, w, orc) ==
    IF ~state.cb_data.live \/ Len(input) = 0
    THEN [state |-> state, w |-> w, ret |-> CL_CLEAN, hung |-> FALSE, outdata |-> << >>]
    ELSE With(HexDecode(state.cb_data, input),
              LAMBDA h :
                With(ObjectLoop(h.data, ctx, h.out, 0, Len(h.out), w, orc,
                                3 * Len(h.out) + 3),
                     LAMBDA r :
                       [state |-> [state EXCEPT !.cb_data = r.data],
                        w |-> r.w, ret |-> r.ret, hung |-> r.hung, outdata |-> h.out]))

\* an end callback that frees the context and leaves cb_data pointing at it
rtf_object_end_dangling(state, ctx, w, orc) ==
    LET data == state.cb_data IN
    IF ~data.live THEN [state |-> state, w |-> w, ret |-> CL_CLEAN]
    ELSE LET r == IF data.fd > 0 THEN decode_and_scan(data, ctx, w, orc)
                  ELSE [data |-> data, w |-> w, ret |-> CL_CLEAN]
             w1 == [r.w EXCEPT !.names = IF r.data.name THEN @ - 1 ELSE @,
                               !.descs = IF r.data.desc_alloc THEN @ - 1 ELSE @,
                               !.ctxs = @ - 1]
         IN [state |-> [state EXCEPT !.cb_data = r.data], w |-> w1, ret |-> r.ret]

rtf_object_end(state, ctx, w, orc) ==
    LET data == state.cb_data IN
    IF ~data.live THEN [state |-> state, w |-> w, ret |-> CL_CLEAN]
    ELSE LET r == IF data.fd > 0 THEN decode_and_scan(data, ctx, w, orc)
                  ELSE [data |-> data, w |-> w, ret |-> CL_CLEAN]
             w1 == [r.w EXCEPT !.names = IF r.data.name THEN @ - 1 ELSE @,
                               !.descs = IF r.data.desc_alloc THEN @ - 1 ELSE @,
                               !.ctxs = @ - 1]
         IN [state |-> [state EXCEPT !.cb_data = NoData], w |-> w1, ret |-> r.ret]

rtf_action(state, action) ==
    CASE action = RTF_OBJECT ->
            [state EXCEPT !.encounteredTopLevel = BitOr(@, Shl(1, RTF_OBJECT))]
      [] action = RTF_OBJECT_DATA ->
            IF (state.encounteredTopLevel \div Shl(1, RTF_OBJECT)) % 2 = 1
            THEN [state EXCEPT !.cb_begin = TRUE, !.cb_process = TRUE, !.cb_end = TRUE]
            ELSE state
      [] OTHER -> state

\* tableFind over rtf_action_mapping: the key is compared as a whole
rtf_action_mapping ==
    << [controlword |-> << "o", "b", "j", "e", "c", "t" >>, action |-> RTF_OBJECT],
       [controlword |-> << "o", "b", "j", "d", "a", "t", "a", " " >>,
        action |-> RTF_OBJECT_DATA] >>

tableFind(word) ==
    IF \E i \in DOMAIN rtf_action_mapping : rtf_action_mapping[i].controlword = word
    THEN rtf_action_mapping[CHOOSE i \in DOMAIN rtf_action_mapping :
                                rtf_action_mapping[i].controlword = word].action
    ELSE NO_ACTION

(* ------------------------------- cleanup ------------------------------ *)
\* the while loop of cleanup_stack
RECURSIVE cleanup_loop(_, _, _, _, _)
cleanup_loop(stack, state, ctx, w, orc) ==
    IF stack.stack_cnt = 0 THEN [stack |-> stack, state |-> state, w |-> w]
    ELSE With(pop_state(stack, state),
              LAMBDA p :
                With(IF p.state.cb_data.live /\ p.state.cb_end
                     THEN rtf_object_end(p.state, ctx, w, orc)
                     ELSE [state |-> p.state, w |-> w, ret |-> CL_CLEAN],
                     LAMBDA e : cleanup_loop(p.stack, e.state, ctx, e.w, orc)))

\* a cleanup_stack that drops the stored frames without running their end
\* callbacks
cleanup_stack_noend(stack, state, ctx, w, orc) ==
    [stack |-> [stack EXCEPT !.states = << >>, !.stack_cnt = 0], state |-> state, w |-> w]

cleanup_stack(stack, state, ctx, w, orc) ==
    IF ~w.stackbuf THEN [stack |-> stack, state |-> state, w |-> w]
    ELSE cleanup_loop(stack, state, ctx, w, orc)

\* cli_rmdirs(tempname): the directory goes with every file left in it
cli_rmdirs(w) == [w EXCEPT !.dir = FALSE, !.files = 0]

SCAN_CLEANUP(stack, state, ctx, w, orc) ==
    LET e == IF state.cb_data.live /\ state.cb_end
             THEN rtf_object_end(state, ctx, w, orc)
             ELSE [state |-> state, w |-> w, ret |-> CL_CLEAN]
        w1 == [e.w EXCEPT !.table = FALSE]
        c == cleanup_stack(stack, e.state, ctx, w1, orc)
        w2 == IF ~ctx.keeptmp THEN cli_rmdirs(c.w) ELSE c.w
    IN [stack |-> c.stack, state |-> c.state,
        w |-> [w2 EXCEPT !.tempname = FALSE, !.stackbuf = FALSE],
        ended |-> state.cb_data.live /\ state.cb_end]

(* ------------------------------ documents ----------------------------- *)
HexChars ==
    << "0", "1", "2", "3", "4", "5", "6", "7", "8", "9", "a", "b", "c", "d", "e", "f" >>

\* the ASCII-hex text of a byte sequence
HexOf(bytes) ==
    [i \in 1..(2 * Len(bytes)) |->
        IF i % 2 = 1 THEN HexChars[(bytes[(i + 1) \div 2] \div 16) + 1]
        ELSE HexChars[(bytes[i \div 2] % 16) + 1]]

Rep(x, n) == [i \in 1..n |-> x]

WordObject == << "\\", "o", "b", "j", "e", "c", "t" >>
WordObjdata == << "\\", "o", "b", "j", "d", "a", "t", "a", " " >>
WordRtf1 == << "\\", "r", "t", "f", "1", " " >>
WordUnknown == << "\\", "z", " " >>
Open == << "{" >>
Close == << "}" >>
Space == << " " >>
\* the control symbol \*
Star == << "\\", "*" >>

\* an object header: magic, description length and description, the 8
\* reserved bytes, and the data size
Header(desc, size) ==
    rtf_data_magic \o cli_writeint32(U32(Len(desc))) \o desc \o Rep(0, 8)
        \o cli_writeint32(U32(size))

\* the decimal text of a magnitude
DigitsOf(mag) == [i \in 1..Len(mag) |-> HexChars[mag[i] + 1]]

PayloadOle2 == << 208, 207 >>
PayloadOle10 == << 65, 66 >>
DescTest == << 116, 101, 115, 116 >>

\* the fragments a free-form document is put together from
Fragments ==
    { Open, Close, WordObject, WordObjdata, WordUnknown,
      HexOf(Header(<< >>, 2) \o PayloadOle10),
      HexOf(Header(<< >>, 2) \o << 208 >>) }

\* the documents that are scanned as a whole
Scenarios ==
    [ hello |-> Open \o WordRtf1 \o << "h", "e", "l", "l", "o" >> \o Close,
      ole2sp |-> Open \o WordRtf1 \o Open \o WordObject \o Space \o WordObjdata
                 \o HexOf(Header(DescTest, 2) \o PayloadOle2) \o Close \o Close,
      ole10sp |-> Open \o WordRtf1 \o Open \o WordObject \o Space \o WordObjdata
                  \o HexOf(Header(DescTest, 2) \o PayloadOle10) \o Close \o Close,
      ole2 |-> Open \o WordRtf1 \o Open \o WordObject \o WordObjdata
               \o HexOf(Header(DescTest, 2) \o PayloadOle2) \o Close \o Close,
      ole10 |-> Open \o WordRtf1 \o Open \o WordObject \o WordObjdata
                \o HexOf(Header(DescTest, 2) \o PayloadOle10) \o Close \o Close,
      noobject |-> Open \o WordObjdata \o HexOf(<< 1, 5, 0, 0 >>) \o Close,
      nonhex |-> Open \o WordObject \o WordObjdata \o Rep("Z", 4) \o Close,
      closed |-> Open \o WordObject \o Close \o Open \o WordObjdata
                 \o HexOf(<< 1 >>) \o Close,
      malformed |-> Close \o << "\\" >> \o Rep("a", 33) \o Space
                    \o << "\\", "a" >> \o Rep("9", 20) \o Space
                    \o << "\\", "*" >> \o << "\\", "u", "-", "1", "x", " " >>
                    \o Open \o WordObject \o WordObjdata \o HexOf(Rep(255, 8))
                    \o Close \o Open,
      deep |-> WordObject \o Rep("{", 17) \o Close \o Close,
      nested |-> Open \o WordObject \o Open \o Open \o WordObjdata
                 \o HexOf(<< 1 >>) \o Close \o Close \o Close,
      longdesc |-> Open \o WordObject \o WordObjdata
                   \o HexOf(rtf_data_magic \o cli_writeint32(U32(65)))
                   \o Star \o HexOf(Rep(120, 22)) \o Star \o HexOf(Rep(120, 22))
                   \o Star \o HexOf(Rep(120, 23)) \o Close,
      zerosize |-> Open \o WordObject \o WordObjdata
                   \o HexOf(Header(<< >>, 0) \o << 1, 5 >>) \o Close,
      params |-> << "\\", "a" >> \o DigitsOf(INT64_MAX) \o Space
                 \o << "\\", "a" >> \o DigitsOf(DecDivTen(INT64_MAX) \o << 8 >>) \o Space
                 \o << "\\", "u", "-" >> \o DigitsOf(INT64_MAX) \o << "x" >>
                 \o Open \o << "\\", "a" >> \o Rep("1", 30) \o Close \o Open,
      rebind |-> Open \o WordObject \o WordObjdata \o HexOf(<< 1 >>)
                 \o WordObject \o Close,
      longone |-> Open \o WordObject \o WordObjdata
                  \o HexOf(rtf_data_magic \o cli_writeint32(U32(65)) \o Rep(120, 65))
                  \o Close,
      wordmax |-> Open \o << "\\" >> \o Rep("a", 32) \o Close
                  \o Open \o << "\\" >> \o Rep("b", 31) \o Space \o Close,
      restart |-> Open \o WordObject \o WordObjdata
                  \o HexOf(Header(<< >>, 2) \o << 65 >>)
                  \o WordObjdata \o HexOf(<< 1 >>) \o Close,
      plain |-> Rep("{", 3) \o WordUnknown \o << "x" >> \o Rep("}", 3),
      inner |-> Open \o WordObject \o WordObjdata
                \o HexOf(Header(<< >>, 2)) \o << "4" >>
                \o Open \o << "f", "f" >> \o Open \o WordObjdata \o HexOf(<< 1 >>)
                \o Close \o Open \o Close \o Close
                \o << "1", "4", "2" >> \o Close,
      twoobj |-> Open \o WordObject \o WordObjdata
                 \o HexOf(Header(DescTest, 2) \o PayloadOle2
                          \o Header(<< >>, 2) \o PayloadOle10) \o Close ]

ScenarioNames == DOMAIN Scenarios

(* ------------------------------- host --------------------------------- *)
\* outcomes of the host during a process callback
Oracles ==
    { [OkOracle EXCEPT !.stale = b] : b \in {0, 207} }
    \cup { [OkOracle EXCEPT !.mem = FALSE], [OkOracle EXCEPT !.tmp = FALSE],
           [OkOracle EXCEPT !.wrprefix = FALSE], [OkOracle EXCEPT !.wrdata = FALSE],
           [OkOracle EXCEPT !.unlink = FALSE], [OkOracle EXCEPT !.scan = CL_VIRUS],
           [OkOracle EXCEPT !.scan = CL_VIRUS, !.unlink = FALSE] }

\* outcomes of the host during an end callback, which scans and unlinks
EndOracles ==
    { OkOracle, [OkOracle EXCEPT !.unlink = FALSE], [OkOracle EXCEPT !.scan = CL_VIRUS],
      [OkOracle EXCEPT !.scan = CL_VIRUS, !.unlink = FALSE] }

(* ------------------------------- state -------------------------------- *)
VARIABLES
    pc,        \* "start", "parse", "done" (cli_scanrtf has returned), "hung";
               \* "hex" in the decoder specification
    state,     \* the working frame of cli_scanrtf
    stack,     \* the group stack
    ret,       \* cli_scanrtf's ret; its return value once pc = "done"
    ctx,       \* the scan context: [keeptmp]
    world,     \* host resources and scanner calls
    rest,      \* bytes of the document fetched and not yet consumed
    budget,    \* fragments the document may still grow by
    splits,    \* chunk boundaries that may still fall inside a run of data
    scenario,  \* the name of the document scanned, or "free"
    scope,     \* per open group (the top level first): \object was seen in it
    opened,    \* per open group: the working frame as it was at its '{'
    ev,        \* what the latest step did
    exit,      \* the place cli_scanrtf returned from
    idle,      \* lexer iterations since a byte was last consumed
    hx,        \* the decoder specification: pieces to feed, bytes fed and decoded
    cs         \* the certificate store specification: the store and its callers

vars == << pc, state, stack, ret, ctx, world, rest, budget, splits, scenario,
           scope, opened, ev, exit, idle, hx, cs >>

\* pret and ends: the code a failed process callback returned, and the calls
\* of the end callback on its frame from the failure to the return
NoEvent ==
    [op |-> "none", inscope |-> FALSE, ingroup |-> FALSE, installed |-> FALSE,
     pret |-> CL_CLEAN, ends |-> 0]
NoHex == [todo |-> << >>, fed |-> << >>, out |-> << >>, calls |-> 0, carried |-> FALSE]

\* the certificate store with nobody calling
NoCert ==
    [store |-> [loaded |-> FALSE,
                system_certs |-> [count |-> 0, certificates |-> "NULL"],
                trusted_certs |-> [count |-> 0],
                mutex |-> 0],
     callers |-> << >>, order |-> << >>, writes |-> << >>,
     mayfail |-> FALSE, failed |-> FALSE]

InitDriver ==
    /\ pc = "start"
    /\ state = base_state
    /\ stack = InitStack
    /\ ret = CL_CLEAN
    /\ ctx \in [keeptmp : BOOLEAN]
    /\ world = InitWorld
    /\ scope = << FALSE >>
    /\ opened = << >>
    /\ ev = NoEvent
    /\ exit = "none"
    /\ idle = 0

Init ==
    /\ InitDriver
    /\ hx = NoHex
    /\ cs = NoCert
    /\ \/ scenario = "free" /\ rest = << >> /\ budget = MaxFrags /\ splits = 0
       \/ \E n \in ScenarioNames :
            scenario = n /\ rest = Scenarios[n] /\ budget = 0 /\ splits = MaxSplits

(* ------------------------------- input -------------------------------- *)
\* what the byte view yields at ptr: the bytes already fetched, or the next
\* fragment of a free-form document
Avail ==
    IF rest # << >> THEN {rest}
    ELSE IF budget > 0 THEN Fragments ELSE {}

\* ptr += n over `in`
Take(in, n) ==
    /\ rest' = SubSeq(in, n + 1, Len(in))
    /\ budget' = IF rest = << >> THEN budget - 1 ELSE budget

\* a frame that is not the default frame: a callback or a context is bound,
\* or encounteredTopLevel is not 0
NonDefault(f) ==
    f.cb_begin \/ f.cb_process \/ f.cb_end \/ f.cb_data.live
        \/ f.encounteredTopLevel # 0

\* \object was seen in an open group or at the top level; in an open group
InScope == \E i \in DOMAIN scope : scope[i]
InGroup == \E i \in 2..Len(scope) : scope[i]

Fresh == [world EXCEPT !.last = NoDecode, !.asked = {}]

\* the outcomes in `set` that differ from success only in operations that a
\* run of the callback under success calls on (the others repeat that run)
Differs(orc) == {f \in DOMAIN OkOracle : orc[f] # OkOracle[f]}
Relevant(set, asked) == {orc \in set : Differs(orc) \subseteq asked}

Return(sk, st, w, code, from) ==
    /\ pc' = "done"
    /\ stack' = sk
    /\ state' = st
    /\ world' = w
    /\ ret' = code
    /\ exit' = from

HasLiveData(sk, st) ==
    st.cb_data.live \/ \E i \in DOMAIN sk.states : sk.states[i].cb_data.live

\* SCAN_CLEANUP; return code;
Abort(sk, st, w, code, from) ==
    \E orc \in IF HasLiveData(sk, st) THEN EndOracles ELSE {OkOracle} :
        \E c \in {SCAN_CLEANUP(sk, st, ctx, w, orc)} :
            Return(c.stack, c.state, c.w, code, from)

Continue(sk, st, w, code) ==
    /\ pc' = pc
    /\ stack' = sk
    /\ state' = st
    /\ world' = w
    /\ ret' = code
    /\ exit' = exit

(* ------------------------------ cli_scanrtf --------------------------- *)
\* lines 511-550: the set-up and its early returns
Setup ==
    /\ pc = "start"
    /\ UNCHANGED << ctx, rest, budget, splits, scenario, opened, scope, ev, idle, hx, cs >>
    /\ \E o \in {"ok", "nostack", "notempname", "nomkdir", "notable"} :
        LET sk == InitStack
            failed == [world EXCEPT !.fault = TRUE]
        IN CASE o = "nostack" -> Return(sk, state, failed, CL_EMEM, "setup")
             [] o = "notempname" ->
                    Return(sk, state, [failed EXCEPT !.stackbuf = TRUE], CL_EMEM, "setup")
             [] o = "nomkdir" -> Return(sk, state, failed, CL_ETMPDIR, "setup")
             [] o = "notable" ->
                    Return(sk, state, [failed EXCEPT !.dir = ctx.keeptmp], TABLE_FAIL, "setup")
             [] OTHER ->
                    /\ pc' = "parse"
                    /\ stack' = sk
                    /\ state' = init_rtf_state
                    /\ world' = [world EXCEPT !.stackbuf = TRUE, !.tempname = TRUE,
                                              !.dir = TRUE, !.table = TRUE]
                    /\ ret' = CL_CLEAN
                    /\ exit' = exit

\* PARSE_MAIN, '{'
MainOpen ==
    /\ pc = "parse" /\ state.parse_state = "PARSE_MAIN"
    /\ \E in \in Avail :
        /\ in[1] = "{"
        /\ Take(in, 1)
        /\ \E reallocOK \in IF stack.stack_cnt >= stack.stack_size
                               /\ ~compare_state(state, base_state)
                            THEN BOOLEAN ELSE {TRUE} :
            LET p == push_state(stack, state, reallocOK)
            IN IF p.ret # CL_CLEAN
               THEN Abort(p.stack, p.state, [Fresh EXCEPT !.fault = TRUE], p.ret, "push")
               ELSE Continue(p.stack, p.state, Fresh, p.ret)
    /\ scope' = Append(scope, FALSE)
    /\ opened' = Append(opened, state)
    /\ ev' = [NoEvent EXCEPT !.op = "push"]
    /\ idle' = 0
    /\ UNCHANGED << ctx, splits, scenario, hx, cs >>

\* PARSE_MAIN, '}'
MainClose ==
    /\ pc = "parse" /\ state.parse_state = "PARSE_MAIN"
    /\ \E in \in Avail :
        /\ in[1] = "}"
        /\ Take(in, 1)
        /\ \E orc \in IF state.cb_data.live /\ state.cb_end THEN EndOracles ELSE {OkOracle} :
            LET e == IF state.cb_data.live /\ state.cb_end
                     THEN rtf_object_end(state, ctx, Fresh, orc)
                     ELSE [state |-> state, w |-> Fresh, ret |-> ret]
                p == pop_state(stack, e.state)
            IN IF e.ret # CL_CLEAN /\ state.cb_data.live /\ state.cb_end
               THEN Abort(stack, e.state, e.w, e.ret, "end")
               ELSE IF p.ret # CL_CLEAN
               THEN Abort(p.stack, p.state, e.w, p.ret, "pop")
               ELSE Continue(p.stack, p.state, e.w, p.ret)
    /\ scope' = IF Len(scope) > 1 THEN SubSeq(scope, 1, Len(scope) - 1) ELSE scope
    /\ opened' = SubSeq(opened, 1, Len(opened) - 1)
    /\ ev' = [NoEvent EXCEPT !.op = "pop"]
    /\ idle' = 0
    /\ UNCHANGED << ctx, splits, scenario, hx, cs >>

\* PARSE_MAIN, '\\'
MainBackslash ==
    /\ pc = "parse" /\ state.parse_state = "PARSE_MAIN"
    /\ \E in \in Avail :
        /\ in[1] = "\\"
        /\ Take(in, 1)
    /\ state' = [state EXCEPT !.parse_state = "PARSE_CONTROL_"]
    /\ ev' = NoEvent
    /\ idle' = 0
    /\ world' = Fresh
    /\ UNCHANGED << pc, stack, ret, ctx, splits, scenario, opened, scope, exit, hx, cs >>

\* the length of the run at the head of `in` that ends before the next of
\* '{', '}', '\\' (lines 584-590: the first byte is not looked at)
RunLength(in, i) ==
    LET hits == {k \in i..Len(in) : main_symbols(in[k])}
    IN IF hits = {} THEN Len(in)
       ELSE (CHOOSE k \in hits : \A m \in hits : k <= m) - 1

\* the lengths `use` may take: the whole run, or any shorter piece of it when
\* the chunk ends inside the run (followed only where a callback is given
\* the run; elsewhere the pieces are skipped alike)
Uses(in) ==
    LET whole == RunLength(in, 2)
    IN {whole} \cup {k \in 1..(whole - 1) : splits > 0 /\ state.cb_begin}

\* the host operations begin and process call on for this run when all succeed
ProcessAsks(st, run) ==
    LET b == IF ~st.cb_data.live THEN rtf_object_begin(st, Fresh, OkOracle)
             ELSE [state |-> st, w |-> Fresh, ret |-> CL_CLEAN]
    IN rtf_object_process(b.state, ctx, run, b.w, OkOracle).w.asked

\* lines 598-601: the calls of the end callback on the working frame after
\* its process callback has failed, the one of line 599 and the one of
\* SCAN_CLEANUP
EndsAfterFailure(sk, st, w) ==
    LET e == IF st.cb_end THEN rtf_object_end(st, ctx, w, OkOracle)
             ELSE [state |-> st, w |-> w, ret |-> CL_CLEAN]
    IN (IF st.cb_end THEN 1 ELSE 0)
       + (IF SCAN_CLEANUP(sk, e.state, ctx, e.w, OkOracle).ended THEN 1 ELSE 0)

\* PARSE_MAIN, any other byte: the run goes to the frame's process callback
MainData ==
    /\ pc = "parse" /\ state.parse_state = "PARSE_MAIN"
    /\ \E in \in Avail :
        /\ ~main_symbols(in[1])
        /\ \E use \in Uses(in) :
            /\ Take(in, use)
            /\ splits' = IF use < RunLength(in, 2) THEN splits - 1 ELSE splits
            /\ IF ~state.cb_begin
               THEN Continue(stack, state, Fresh, ret) /\ ev' = [NoEvent EXCEPT !.op = "skip"]
               ELSE \E run \in {SubSeq(in, 1, use)} :
                    \E asks \in {ProcessAsks(state, run)} :
                    \E orc \in Relevant(Oracles, asks) :
                    \E b \in {IF ~state.cb_data.live
                              THEN rtf_object_begin(state, Fresh, orc)
                              ELSE [state |-> state, w |-> Fresh, ret |-> CL_CLEAN]} :
                    \E r \in {rtf_object_process(b.state, ctx, run, b.w, orc)} :
                       /\ ev' = IF b.ret = CL_CLEAN /\ ~r.hung /\ r.ret # CL_CLEAN
                                THEN [NoEvent EXCEPT
                                        !.op = "process", !.pret = r.ret,
                                        !.ends = EndsAfterFailure(stack, r.state, r.w)]
                                ELSE [NoEvent EXCEPT !.op = "process"]
                       /\ IF b.ret # CL_CLEAN
                          THEN Abort(stack, b.state, b.w, b.ret, "begin")
                          ELSE IF r.hung
                          THEN /\ pc' = "hung"
                               /\ state' = r.state
                               /\ world' = r.w
                               /\ UNCHANGED << stack, ret, exit >>
                          ELSE IF r.ret # CL_CLEAN
                          THEN \E orc2 \in IF r.state.cb_data.fd > 0
                                           THEN EndOracles ELSE {OkOracle} :
                               LET e == IF r.state.cb_end
                                        THEN rtf_object_end(r.state, ctx, r.w, orc2)
                                        ELSE [state |-> r.state, w |-> r.w, ret |-> CL_CLEAN]
                               IN Abort(stack, e.state, e.w, r.ret, "process")
                          ELSE Continue(stack, r.state, r.w, r.ret)
    /\ idle' = 0
    /\ UNCHANGED << ctx, scenario, opened, scope, hx, cs >>

\* the step of a lexer state that looks at *ptr without consuming it
Peek(in) == Take(in, 0)

\* PARSE_CONTROL_
Control ==
    /\ pc = "parse" /\ state.parse_state = "PARSE_CONTROL_"
    /\ \E in \in Avail :
        /\ Peek(in)
        /\ state' = IF isalpha(in[1])
                    THEN [state EXCEPT !.parse_state = "PARSE_CONTROL_WORD",
                                       !.controlword_cnt = 0, !.controlword = << >>]
                    ELSE [state EXCEPT !.parse_state = "PARSE_CONTROL_SYMBOL"]
    /\ ev' = NoEvent
    /\ idle' = idle + 1
    /\ world' = Fresh
    /\ UNCHANGED << pc, stack, ret, ctx, splits, scenario, opened, scope, exit, hx, cs >>

\* PARSE_CONTROL_SYMBOL
ControlSymbol ==
    /\ pc = "parse" /\ state.parse_state = "PARSE_CONTROL_SYMBOL"
    /\ \E in \in Avail : Take(in, 1)
    /\ state' = [state EXCEPT !.parse_state = "PARSE_MAIN"]
    /\ ev' = NoEvent
    /\ idle' = 0
    /\ world' = Fresh
    /\ UNCHANGED << pc, stack, ret, ctx, splits, scenario, opened, scope, exit, hx, cs >>

\* a write that appends the byte and does not count it
PutControlword_nocount(st, c) ==
    [st EXCEPT !.controlword = Append(@, c)]

\* controlword[controlword_cnt++] = c
PutControlword(st, c) ==
    [st EXCEPT !.controlword = Append(@, c), !.controlword_cnt = @ + 1]

CONTROLWORD_MAX == 32

\* PARSE_CONTROL_WORD
ControlWord ==
    /\ pc = "parse" /\ state.parse_state = "PARSE_CONTROL_WORD"
    /\ \E in \in Avail :
        LET c == in[1] IN
        IF state.controlword_cnt = CONTROLWORD_MAX
        THEN /\ Peek(in)
             /\ state' = [state EXCEPT !.parse_state = "PARSE_MAIN"]
             /\ world' = [Fresh EXCEPT !.anomalies = @ \cup {"longword"}]
             /\ idle' = idle + 1
        ELSE IF isalpha(c)
        THEN /\ Take(in, 1)
             /\ state' = PutControlword(state, c)
             /\ world' = Fresh
             /\ idle' = 0
        ELSE IF isspace(c)
        THEN /\ Take(in, 1)
             /\ state' = [PutControlword(state, c) EXCEPT
                             !.parse_state = "PARSE_INTERPRET_CONTROLWORD"]
             /\ world' = Fresh
             /\ idle' = 0
        ELSE IF isdigit(c)
        THEN /\ Peek(in)
             /\ state' = [state EXCEPT !.parse_state = "PARSE_CONTROL_WORD_PARAM",
                                       !.controlword_param = ParamZero,
                                       !.controlword_param_sign = 1]
             /\ world' = Fresh
             /\ idle' = idle + 1
        ELSE IF c = "-"
        THEN /\ Take(in, 1)
             /\ state' = [state EXCEPT !.parse_state = "PARSE_CONTROL_WORD_PARAM",
                                       !.controlword_param = ParamZero,
                                       !.controlword_param_sign = -1]
             /\ world' = Fresh
             /\ idle' = 0
        ELSE /\ Peek(in)
             /\ state' = [state EXCEPT !.parse_state = "PARSE_INTERPRET_CONTROLWORD"]
             /\ world' = Fresh
             /\ idle' = idle + 1
    /\ ev' = NoEvent
    /\ UNCHANGED << pc, stack, ret, ctx, splits, scenario, opened, scope, exit, hx, cs >>

\* PARSE_CONTROL_WORD_PARAM
ControlWordParam ==
    /\ pc = "parse" /\ state.parse_state = "PARSE_CONTROL_WORD_PARAM"
    /\ \E in \in Avail :
        LET c == in[1] IN
        IF isdigit(c)
        THEN IF ParamOverflows(state.controlword_param, DigitVal(c))
             THEN /\ Peek(in)
                  /\ state' = [state EXCEPT !.parse_state = "PARSE_MAIN"]
                  /\ world' = [Fresh EXCEPT !.anomalies = @ \cup {"overflow"}]
                  /\ idle' = idle + 1
             ELSE /\ Take(in, 1)
                  /\ state' = [state EXCEPT !.controlword_param.mag =
                                                DecTimesTenPlus(@, DigitVal(c))]
                  /\ world' = Fresh
                  /\ idle' = 0
        ELSE IF isalpha(c)
        THEN /\ Take(in, 1)
             /\ state' = state
             /\ world' = Fresh
             /\ idle' = 0
        ELSE /\ Peek(in)
             /\ state' = [state EXCEPT
                             !.controlword_param.neg =
                                 state.controlword_param_sign < 0
                                 /\ state.controlword_param.mag # << >>,
                             !.parse_state = "PARSE_INTERPRET_CONTROLWORD"]
             /\ world' = Fresh
             /\ idle' = idle + 1
    /\ ev' = NoEvent
    /\ UNCHANGED << pc, stack, ret, ctx, splits, scenario, opened, scope, exit, hx, cs >>

\* PARSE_INTERPRET_CONTROLWORD
Interpret ==
    /\ pc = "parse" /\ state.parse_state = "PARSE_INTERPRET_CONTROLWORD"
    /\ \E in \in Avail : Peek(in)
    /\ LET action == tableFind(state.controlword)
           ending == action # NO_ACTION /\ state.cb_data.live /\ state.cb_end
       IN \E orc \in IF ending /\ state.cb_data.fd > 0 THEN EndOracles ELSE {OkOracle} :
           LET e == IF ending
                    THEN rtf_object_end(state, ctx, Fresh, orc)
                    ELSE [state |-> state, w |-> Fresh, ret |-> CL_CLEAN]
               cleared == IF ending
                          THEN [e.state EXCEPT !.cb_begin = FALSE, !.cb_end = FALSE,
                                               !.cb_data = NoData]
                          ELSE e.state
               acted == IF action # NO_ACTION THEN rtf_action(cleared, action) ELSE cleared
           IN /\ state' = [acted EXCEPT !.parse_state = "PARSE_MAIN"]
              /\ world' = e.w
              /\ scope' = IF action = RTF_OBJECT
                          THEN [scope EXCEPT ![Len(scope)] = TRUE] ELSE scope
              /\ ev' = IF action = RTF_OBJECT_DATA
                       THEN [NoEvent EXCEPT
                                !.op = "objdata", !.inscope = InScope, !.ingroup = InGroup,
                                !.installed = acted.cb_begin /\ acted.cb_process
                                                /\ acted.cb_end]
                       ELSE IF action = RTF_OBJECT THEN [NoEvent EXCEPT !.op = "object"]
                       ELSE NoEvent
    /\ idle' = idle + 1
    /\ UNCHANGED << pc, stack, ret, ctx, splits, scenario, opened, exit, hx, cs >>

\* the byte view is exhausted: SCAN_CLEANUP; return ret;
Finish ==
    /\ pc = "parse"
    /\ rest = << >>
    /\ Abort(stack, state, Fresh, ret, "eof")
    /\ ev' = NoEvent
    /\ UNCHANGED << ctx, rest, budget, splits, scenario, opened, scope, idle, hx, cs >>

Next ==
    \/ Setup
    \/ MainOpen
    \/ MainClose
    \/ MainBackslash
    \/ MainData
    \/ Control
    \/ ControlSymbol
    \/ ControlWord
    \/ ControlWordParam
    \/ Interpret
    \/ Finish

Spec == Init /\ [][Next]_vars

\* the loop of cli_scanrtf keeps running until it returns
FairSpec == Spec /\ WF_vars(Next)

(* --------------------- the hex decoder, call by call ------------------- *)
\* the bytes a stream handed to rtf_object_process is made of: hex digits of
\* either case and bytes that are not hex digits
HexAlphabet == {"4", "a", "F", " ", "Z"}

HexStreams == UNION {[1..n -> HexAlphabet] : n \in 0..MaxStream}

\* a frame on which \objdata has installed the callbacks and cb_begin has run
InitHex ==
    /\ pc = "hex"
    /\ LET b == rtf_object_begin(rtf_action(rtf_action(init_rtf_state, RTF_OBJECT),
                                            RTF_OBJECT_DATA),
                                 InitWorld, OkOracle)
       IN state = b.state /\ world = [b.w EXCEPT !.asked = {}]
    /\ stack = InitStack
    /\ ret = CL_CLEAN
    /\ ctx \in [keeptmp : BOOLEAN]
    /\ scope = << FALSE >>
    /\ opened = << >>
    /\ ev = NoEvent
    /\ exit = "none"
    /\ idle = 0
    /\ rest = << >> /\ budget = 0 /\ splits = 0 /\ scenario = "hex"
    /\ \E s \in HexStreams : hx = [NoHex EXCEPT !.todo = s]
    /\ cs = NoCert

\* one call of rtf_object_process on the next piece of the stream, of any
\* length; the last of MaxPieces calls is given what is left
HexFeed ==
    /\ pc = "hex"
    /\ hx.todo # << >>
    /\ \E k \in 1..Len(hx.todo) :
        /\ hx.calls + 1 = MaxPieces => k = Len(hx.todo)
        /\ LET piece == SubSeq(hx.todo, 1, k)
               r == rtf_object_process(state, ctx, piece, Fresh, OkOracle)
           IN /\ state' = r.state
              /\ world' = r.w
              /\ ret' = r.ret
              /\ hx' = [todo |-> SubSeq(hx.todo, k + 1, Len(hx.todo)),
                        fed |-> hx.fed \o piece,
                        out |-> hx.out \o r.outdata,
                        calls |-> hx.calls + 1,
                        carried |-> hx.carried
                                    \/ (state.cb_data.has_partial
                                        /\ ~r.state.cb_data.has_partial)]
    /\ UNCHANGED << pc, stack, ctx, rest, budget, splits, scenario, opened, scope, ev, exit, idle, cs >>

NextHex == HexFeed

SpecHex == InitHex /\ [][NextHex]_vars

(* ---------------- cert_store_load, caller by caller -------------------- *)
\* the variables of the scanner, which the certificate store leaves alone
scanvars == << pc, state, stack, ret, ctx, world, rest, budget, splits, scenario,
               scope, opened, ev, exit, idle, hx >>

Callers == 1..MaxCallers

\* a caller before its call: ret is CL_EOPEN and store is NULL
NoCaller ==
    [at |-> "call", ret |-> CL_EOPEN, store |-> FALSE, locked |-> FALSE,
     saw |-> FALSE]

\* what cert_store_get_int may hand back: the store, or NULL
cert_store_get_int == BOOLEAN

\* what cert_store_set_trusted_int may do with count certificates: install
\* them and return 0, or leave the store as it is and return an error
cert_store_set_trusted_int(store, count) ==
    {[store |-> [store EXCEPT !.trusted_certs = [count |-> count]], ret |-> 0],
     [store |-> store, ret |-> -1]}

\* the store as the callers find it; what system_certs holds is not known
InitCert ==
    /\ pc = "cert"
    /\ state = base_state
    /\ stack = InitStack
    /\ ret = CL_CLEAN
    /\ ctx = [keeptmp |-> FALSE]
    /\ world = InitWorld
    /\ scope = << FALSE >>
    /\ opened = << >>
    /\ ev = NoEvent
    /\ exit = "none"
    /\ idle = 0
    /\ rest = << >> /\ budget = 0 /\ splits = 0 /\ scenario = "cert"
    /\ hx = NoHex
    /\ \E sys \in {[count |-> 0, certificates |-> "NULL"],
                   [count |-> 1, certificates |-> "list"]}, mf \in BOOLEAN :
         cs = [NoCert EXCEPT !.store.system_certs = sys,
                             !.callers = [t \in Callers |-> NoCaller],
                             !.mayfail = mf]

At(t, place) == pc = "cert" /\ cs.callers[t].at = place

\* ret = CL_EOPEN; store = cert_store_get_int(); if (!store) break;
LoadGet(t) ==
    /\ At(t, "call")
    /\ \E got \in cert_store_get_int :
         cs' = [cs EXCEPT !.callers[t].ret = CL_EOPEN,
                          !.callers[t].store = got,
                          !.callers[t].at = IF got THEN "lock" ELSE "unlock"]
    /\ UNCHANGED scanvars

\* pthread_mutex_lock(&store->mutex): the caller waits for the mutex and takes
\* it, or the call fails, which is logged and the caller goes on without it
LoadLock(t) ==
    /\ At(t, "lock")
    /\ \/ /\ cs.store.mutex = 0
          /\ cs' = [cs EXCEPT !.store.mutex = t,
                              !.order = Append(@, t),
                              !.callers[t].locked = TRUE,
                              !.callers[t].at = "check"]
       \/ /\ cs.mayfail
          /\ cs' = [cs EXCEPT !.failed = TRUE,
                              !.callers[t].at = "check"]
    /\ UNCHANGED scanvars

\* a check that does not look at loaded
LoadCheck_always(t) ==
    /\ At(t, "check")
    /\ cs' = [cs EXCEPT !.callers[t].at = "reset"]
    /\ UNCHANGED scanvars

\* if (store->loaded) { ret = 0; break; }   (0 is the value of CL_CLEAN)
LoadCheck(t) ==
    /\ At(t, "check")
    /\ cs' = IF cs.store.loaded
             THEN [cs EXCEPT !.callers[t].ret = CL_CLEAN,
                             !.callers[t].saw = TRUE,
                             !.callers[t].at = "unlock"]
             ELSE [cs EXCEPT !.callers[t].at = "reset"]
    /\ UNCHANGED scanvars

\* store->system_certs.count = 0; store->system_certs.certificates = NULL;
LoadReset(t) ==
    /\ At(t, "reset")
    /\ cs' = [cs EXCEPT !.store.system_certs = [count |-> 0, certificates |-> "NULL"],
                        !.writes = Append(@, << t, "system_certs" >>),
                        !.callers[t].at = "trusted"]
    /\ UNCHANGED scanvars

\* if (trusted_certs && trusted_cert_count > 0) cert_store_set_trusted_int(...);
\* its result is logged and nothing else
LoadTrusted(t) ==
    /\ At(t, "trusted")
    /\ \E trusted_certs \in BOOLEAN, trusted_cert_count \in 0..MaxCerts :
         IF trusted_certs /\ trusted_cert_count > 0
         THEN \E r \in cert_store_set_trusted_int(cs.store, trusted_cert_count) :
                cs' = [cs EXCEPT !.store = r.store,
                                 !.writes = IF r.ret = 0
                                            THEN Append(@, << t, "trusted_certs" >>)
                                            ELSE @,
                                 !.callers[t].at = "loaded"]
         ELSE cs' = [cs EXCEPT !.callers[t].at = "loaded"]
    /\ UNCHANGED scanvars

\* store->loaded = true; ret = 0;
LoadDone(t) ==
    /\ At(t, "loaded")
    /\ cs' = [cs EXCEPT !.store.loaded = TRUE,
                        !.writes = Append(@, << t, "loaded" >>),
                        !.callers[t].ret = CL_CLEAN,
                        !.callers[t].at = "unlock"]
    /\ UNCHANGED scanvars

\* if (store) pthread_mutex_unlock(&store->mutex); return ret;
\* unlocking a mutex the caller does not hold either releases it or fails
LoadUnlock(t) ==
    /\ At(t, "unlock")
    /\ IF ~cs.callers[t].store
       THEN cs' = [cs EXCEPT !.callers[t].at = "returned"]
       ELSE IF cs.store.mutex = t
       THEN cs' = [cs EXCEPT !.store.mutex = 0,
                             !.callers[t].locked = FALSE,
                             !.callers[t].at = "returned"]
       ELSE \E m \in {0, cs.store.mutex} :
              cs' = [cs EXCEPT !.store.mutex = m,
                               !.callers[t].at = "returned"]
    /\ UNCHANGED scanvars

cert_store_load(t) ==
    \/ LoadGet(t)
    \/ LoadLock(t)
    \/ LoadCheck(t)
    \/ LoadReset(t)
    \/ LoadTrusted(t)
    \/ LoadDone(t)
    \/ LoadUnlock(t)

NextCert == \E t \in Callers : cert_store_load(t)

SpecCert == InitCert /\ [][NextCert]_vars

(* ------------------------------ properties ---------------------------- *)
Returned == pc = "done"

\* C1 (scope gating): when an objdata control word is interpreted and no open
\* group, nor the top level, has seen \object, the extractor callbacks are
\* not installed on the active frame.
C1_ScopeGating == ev.op = "objdata" /\ ~ev.inscope => ~ev.installed

\* C2 (verdict propagation): when a downstream scanner has returned a
\* non-clean code during the scan, cli_scanrtf returns a non-clean code.
C2_VerdictPropagated == Returned /\ world.threat => ret # CL_CLEAN

\* C3 (no leak): once cli_scanrtf has returned, with any code, no temp-file
\* descriptor is open, no extractor context (nor path or description buffer
\* of one) is live on the working frame, on a stored frame or dropped, and
\* unless keep-temp is set no temp file and no temp directory survive.
C3_NoLeak ==
    Returned =>
        /\ world.fds = 0
        /\ world.ctxs = 0 /\ world.names = 0 /\ world.descs = 0
        /\ ~HasLiveData(stack, state)
        /\ ~ctx.keeptmp => world.files = 0 /\ ~world.dir

\* a write to the temp file failed while its descriptor was open, the end
\* callback scanned and closed it, and cli_scanrtf returned EWRITE
C3_Witness ==
    /\ Returned /\ exit = "process" /\ ret = CL_EWRITE
    /\ Len(world.scans) > 0
    /\ ~ctx.keeptmp

\* C4 (EUNLINK does not mask a verdict): when decode_and_scan's scanner call
\* returned a non-clean code, decode_and_scan returns that code, whether or
\* not the unlink that follows fails.
C4_UnlinkKeepsVerdict ==
    world.last.called /\ world.last.scan # CL_CLEAN => world.last.ret = world.last.scan

\* the value of a hex digit, and the decoding of a sequence of hex digits
\* taken in pairs, high nibble first
RefNibble(c) ==
    CHOOSE v \in 0..15 :
        \/ HexChars[v + 1] = c
        \/ v >= 10 /\ c = << "A", "B", "C", "D", "E", "F" >>[v - 9]

RefDecode(f) ==
    [i \in 1..(Len(f) \div 2) |-> 16 * RefNibble(f[2 * i - 1]) + RefNibble(f[2 * i])]

\* C5 (hex decoding is independent of the cuts): after any number of calls
\* of rtf_object_process on consecutive pieces of a stream, the bytes decoded
\* over all calls are the hex decoding of the bytes fed so far with the
\* non-hex bytes removed; an unpaired last digit yields no byte and is held,
\* as the high nibble, in partial/has_partial.
C5_SplitIndependent ==
    pc = "hex" =>
        LET f == SelectSeq(hx.fed, isxdigit)
        IN /\ hx.out = RefDecode(f)
           /\ state.cb_data.has_partial = (Len(f) % 2 = 1)
           /\ Len(f) % 2 = 1 => state.cb_data.partial = 16 * RefNibble(f[Len(f)])

\* a stream with a non-hex byte, fed in MaxPieces pieces with a cut between
\* the two digits of a byte, decoded to at least one byte and ending on an
\* unpaired digit
C5_Witness ==
    /\ pc = "hex" /\ hx.todo = << >> /\ hx.calls = MaxPieces
    /\ hx.carried
    /\ Len(hx.out) >= 1
    /\ state.cb_data.has_partial
    /\ \E i \in DOMAIN hx.fed : ~isxdigit(hx.fed[i])

\* the scans a whole-document scan of the two object scenarios is to make
ExpectedScan(n) ==
    IF n \in {"ole2", "ole2sp"}
    THEN [scanner |-> "cli_magic_scandesc", content |-> PayloadOle2]
    ELSE [scanner |-> "cli_scan_ole10",
          content |-> << 2, 0, 0, 0 >> \o PayloadOle10]

ExtractsOne(names) ==
    Returned /\ scenario \in names /\ splits = MaxSplits /\ ~world.fault =>
        /\ Len(world.scans) = 1
        /\ world.scans[1].scanner = ExpectedScan(scenario).scanner
        /\ world.scans[1].content = ExpectedScan(scenario).content
        /\ world.scans[1].ret = CL_CLEAN => ret = CL_CLEAN

\* C6 as stated (one space after \object): the document given in one chunk,
\* with no host failure, has exactly one object extracted and scanned, D0 CF
\* by the generic scanner or 02 00 00 00 41 42 by the OLE10Native scanner,
\* and the result is CLEAN when the scanner reports clean.
C6_AsStated == ExtractsOne({"ole2sp", "ole10sp"})

\* C6 with \objdata following \object directly: the document
\* {\rtf1 {\object\objdata H}} given in one chunk, with no host failure, has
\* exactly one object extracted and scanned, D0 CF by the generic scanner or
\* 02 00 00 00 41 42 by the OLE10Native scanner, and the result is CLEAN when
\* the scanner reports clean.
C6_Extracted == ExtractsOne({"ole2", "ole10"})

\* the OLE10Native document scanned to its end: one clean scan, CLEAN
C6_Witness ==
    /\ Returned /\ exit = "eof" /\ scenario = "ole10" /\ splits = MaxSplits
    /\ ~world.fault /\ ~world.threat
    /\ Len(world.scans) = 1
    /\ ret = CL_CLEAN

\* C7 (malformed RTF never aborts the scan): when no host operation has
\* failed and no scanner has reported a threat, cli_scanrtf returns only from
\* the end of the input, and returns CLEAN.
C7_NeverAborts ==
    Returned /\ ~world.fault /\ ~world.threat => exit = "eof" /\ ret = CL_CLEAN

\* the malformed document (unmatched }, a control word of 33 letters, a
\* parameter beyond 64 bits, objdata that is not the magic, an unclosed {)
\* scanned to its end with each anomaly logged
C7_Witness ==
    /\ Returned /\ scenario = "malformed" /\ exit = "eof" /\ ret = CL_CLEAN
    /\ {"longword", "overflow", "magic"} \subseteq world.anomalies
    /\ stack.warned
    /\ ~world.fault

\* C8 (termination): the lexer never makes more than two iterations in a row
\* without consuming a byte, the loop of rtf_object_process ends in every
\* internal state, and cli_scanrtf returns.
C8_Terminates == [](idle <= 2 /\ pc # "hung") /\ <>Returned

\* the scan has returned from the end of the document whose description
\* length is above 64, the description having come in several calls
C8_Witness ==
    /\ Returned /\ exit = "eof"
    /\ scenario = "longdesc" /\ "desclen" \in world.anomalies

\* C9 (balance): once cli_scanrtf has returned, the logical depth counter
\* elements is 0 (and so has not gone below 0).
C9_Balanced == Returned => stack.elements = 0

\* C10 (inherited scope): an objdata control word interpreted while a group
\* that has seen \object is open (or after \object at the top level, when no
\* unmatched } has been met) installs the extractor callbacks on the active
\* frame.
C10_InheritedScope ==
    ev.op = "objdata" /\ (ev.ingroup \/ (ev.inscope /\ ~stack.warned)) => ev.installed

\* objdata interpreted two groups below the group that saw \object
C10_Witness ==
    /\ ev.op = "objdata" /\ ev.installed /\ ev.ingroup
    /\ Len(scope) >= 4
    /\ scope[2] /\ ~scope[3] /\ ~scope[4]


\* C11 (restart): the document whose objdata stream holds an OLE2 object and
\* then an OLE10Native object, scanned with no host failure and no scanner
\* reporting a threat, has exactly two scanner calls, in stream order: the
\* generic scanner on D0 CF, then the OLE10Native scanner on 02 00 00 00 41 42.
C11_Restart ==
    Returned /\ scenario = "twoobj" /\ ~world.fault /\ ~world.threat =>
        /\ Len(world.scans) = 2
        /\ world.scans[1].scanner = "cli_magic_scandesc"
        /\ world.scans[1].content = PayloadOle2
        /\ world.scans[2].scanner = "cli_scan_ole10"
        /\ world.scans[2].content = << 2, 0, 0, 0 >> \o PayloadOle10

\* the value param * 10 + d is within the signed 64-bit range
InInt64(mag) == ~DecGreater(mag, INT64_MAX)

\* a step of PARSE_CONTROL_WORD_PARAM on a digit d: param * 10, computed when
\* the first comparison is false, is in range; d is accepted, consumed and
\* appended when param * 10 + d is in range, and otherwise the frame returns
\* to PARSE_MAIN with the digit not consumed and the stack as it was
C12_ParamStep ==
    pc = "parse" /\ state.parse_state = "PARSE_CONTROL_WORD_PARAM"
      /\ rest # << >> /\ isdigit(rest[1]) =>
        LET d == DigitVal(rest[1])
            mag == state.controlword_param.mag
        IN /\ ~DecGreater(mag, DecDivTen(INT64_MAX)) => InInt64(DecTimesTenPlus(mag, 0))
           /\ IF InInt64(DecTimesTenPlus(mag, d))
              THEN /\ rest' = Tail(rest)
                   /\ state'.controlword_param.mag = DecTimesTenPlus(mag, d)
                   /\ state'.parse_state = "PARSE_CONTROL_WORD_PARAM"
              ELSE /\ rest' = rest
                   /\ stack' = stack
                   /\ state'.parse_state = "PARSE_MAIN"

\* C12 (parameter overflow safety): the magnitude of the parameter of every
\* frame is at most INT64_MAX (so it and its negation are signed 64-bit
\* values), and every step on a parameter digit d accepts d exactly when
\* param * 10 + d <= INT64_MAX, computes param * 10 only when it is in range,
\* and on overflow returns to PARSE_MAIN without consuming the digit and
\* without touching the stack.
C12_OverflowSafe ==
    /\ [](/\ InInt64(state.controlword_param.mag)
          /\ \A i \in DOMAIN stack.states :
                InInt64(stack.states[i].controlword_param.mag))
    /\ [][C12_ParamStep]_vars

\* the digit 8 after 922337203685477580 has been refused, after all of
\* 9223372036854775807 had been accepted by the control word before
C12_Witness ==
    /\ scenario = "params" /\ pc = "parse"
    /\ state.parse_state = "PARSE_MAIN"
    /\ state.controlword_param.mag = DecDivTen(INT64_MAX)
    /\ "overflow" \in world.anomalies
    /\ rest # << >> /\ rest[1] = "8"

\* C13 (stack buffer released): once cli_scanrtf has returned, from the
\* set-up, from an abort or from the end of the input, the stack storage
\* buffer allocated at its start is not left allocated.
C13_StackFreed == Returned => ~world.stackbuf

\* C14 (process-failure protocol): when cli_scanrtf has returned because a
\* process callback failed, it returns the code that callback returned, the
\* end callback was called once on that frame, and every extractor context
\* has been freed once (none is live, none was freed twice).
C14_ProcessFailure ==
    /\ world.ctxs >= 0
    /\ Returned /\ exit = "process" =>
          /\ ev.pret # CL_CLEAN /\ ret = ev.pret
          /\ ev.ends = 1
          /\ world.ctxs = 0
          /\ ~state.cb_data.live

\* the temp file could not be created: process returned ECREAT with no
\* descriptor open, and cli_scanrtf returned it
C14_Witness ==
    /\ Returned /\ exit = "process" /\ ret = CL_ECREAT
    /\ ev.pret = CL_ECREAT /\ ev.ends = 1
    /\ world.scans = << >>

\* the three callbacks of a frame are set together or unset together
CallbacksTogether(f) == f.cb_begin = f.cb_process /\ f.cb_process = f.cb_end

\* C15 (callback triple), its part on the callbacks: in every state the
\* working frame and every stored frame has begin, process and end all set or
\* all unset; so after a recognised control word has ended a bound extractor
\* none of the three is left set.
C15_Triple ==
    /\ CallbacksTogether(state)
    /\ \A i \in DOMAIN stack.states : CallbacksTogether(stack.states[i])

\* C16 (long descriptions are skipped): when the objdata of a group holds the
\* magic, the description length 65 and at least 65 more decoded bytes, given
\* in one call or in several, then once all of it has been processed the
\* extractor has left WAIT_DESC for WAIT_ZERO.
C16_LongDescSkipped ==
    pc = "parse" /\ scenario \in {"longone", "longdesc"} /\ rest = Close
      /\ state.cb_data.live =>
        state.cb_data.internal_state = "WAIT_ZERO"

\* C17 (WAIT_ZERO discards exactly 8 bytes): for the documents whose object
\* has the data size 2, however the decoded bytes are spread over the calls
\* of rtf_object_process, the size the extractor has read when it dumps data
\* is the field that follows the 8 reserved bytes (what is left of it is at
\* most 2), and when all the objdata of the group has been processed the
\* object is complete and has been scanned.
C17_WaitZeroExact ==
    pc = "parse" /\ scenario \in {"ole2", "ole10"} =>
        /\ state.cb_data.live /\ state.cb_data.internal_state = "DUMP_DATA" =>
              state.cb_data.desc_len.hi = 0 /\ state.cb_data.desc_len.lo <= 2
        /\ rest = Close \o Close /\ state.cb_data.live =>
              /\ state.cb_data.internal_state = "WAIT_MAGIC"
              /\ Len(world.scans) = 1

\* the payload bytes of a scanned temp file: what follows the 4-byte length
\* prefix of a file given to the OLE10Native scanner, the whole file otherwise
PayloadOf(scan) ==
    IF scan.scanner = "cli_scan_ole10"
    THEN SubSeq(scan.content, 5, Len(scan.content))
    ELSE scan.content

\* C18 (flavour determinism): every temp file that was scanned with at least
\* two payload bytes in it went to the generic scanner, without length
\* prefix, exactly when its first two payload bytes are D0 CF, and to the
\* OLE10Native scanner otherwise, whatever the cuts between the calls and
\* whatever the scratch buffer held.
C18_FlavourByPayload ==
    \A i \in DOMAIN world.scans :
        LET payload == PayloadOf(world.scans[i])
        IN Len(payload) >= 2 =>
            (world.scans[i].scanner = "cli_magic_scandesc"
                <=> SubSeq(payload, 1, 2) = PayloadOle2)

\* the bytes written to controlword are those below controlword_cnt, and
\* there are at most 32 of them
WordInBuffer(f) ==
    f.controlword_cnt <= CONTROLWORD_MAX /\ Len(f.controlword) = f.controlword_cnt

\* a step of the lexer: at the limit of 32 bytes PARSE_CONTROL_WORD returns
\* to PARSE_MAIN with the byte not consumed and the stack as it was; a byte is
\* written to controlword at an index below 32; in PARSE_MAIN a '{' raises
\* the depth by one and a '}' lowers it by one
C19_WordStep ==
    pc = "parse" /\ rest # << >> =>
        /\ state.parse_state = "PARSE_CONTROL_WORD"
              /\ state.controlword_cnt = CONTROLWORD_MAX =>
                 rest' = rest /\ stack' = stack /\ state'.parse_state = "PARSE_MAIN"
        /\ state.parse_state = "PARSE_CONTROL_WORD"
              /\ state'.controlword # state.controlword =>
                 state.controlword_cnt < CONTROLWORD_MAX
        /\ state.parse_state = "PARSE_MAIN" /\ rest[1] = "{" /\ pc' = "parse" =>
                 stack'.elements = stack.elements + 1
        /\ state.parse_state = "PARSE_MAIN" /\ rest[1] = "}" /\ pc' = "parse" =>
                 stack'.elements = stack.elements - 1

\* C19 (control-word buffer bound): in every state controlword_cnt is at most
\* 32 in the working frame and in every stored frame, so the terminator that
\* PARSE_INTERPRET_CONTROLWORD writes at index controlword_cnt is inside the
\* 33 bytes; letters and whitespace are written at indexes below 32; and at
\* the limit the parser returns to PARSE_MAIN without consuming the byte and
\* without a push or pop, the next '{' and '}' changing the depth by one.
C19_WordBound ==
    /\ [](/\ WordInBuffer(state)
          /\ \A i \in DOMAIN stack.states : WordInBuffer(stack.states[i]))
    /\ [][C19_WordStep]_vars

\* a control word of 32 letters was cut off at the closing brace that
\* followed it, and that brace has closed the group
C19_Witness ==
    /\ scenario = "wordmax" /\ pc = "parse"
    /\ "longword" \in world.anomalies
    /\ state.controlword_cnt = 0
    /\ ev.op = "pop" /\ stack.elements = 0
    /\ rest # << >> /\ rest[1] = "{"

\* the frames, working and stored, whose context holds an open temp file
HoldsFile(f) == f.cb_data.live /\ f.cb_data.fd > 0

OpenFiles ==
    Cardinality({i \in DOMAIN stack.states : HoldsFile(stack.states[i])})
        + (IF HoldsFile(state) THEN 1 ELSE 0)

\* a context that is writing (DUMP_DATA) writes to an open descriptor
WritesToOpen(f) ==
    f.cb_data.live /\ f.cb_data.internal_state = "DUMP_DATA" => f.cb_data.fd > 0

\* C20 (write before scan, scan exactly once): in every state each temp file
\* created so far is either open, unscanned and held by one live context, or
\* has been given to exactly one scanner call and closed; a context writes
\* only to an open, unscanned file; and once cli_scanrtf has returned, by
\* whatever path, every temp file created has been scanned exactly once.
C20_ScannedOnce ==
    /\ world.created = Len(world.scans) + world.fds
    /\ world.fds = OpenFiles
    /\ WritesToOpen(state)
    /\ \A i \in DOMAIN stack.states : WritesToOpen(stack.states[i])
    /\ Returned => world.fds = 0 /\ Len(world.scans) = world.created

\* an object one payload byte short was cut off by a second objdata control
\* word: its temp file was scanned by the end callback and closed, and the
\* scan goes on
C20_Witness ==
    /\ pc = "parse" /\ scenario = "restart" /\ ev.op = "objdata"
    /\ world.created = 1 /\ Len(world.scans) = 1 /\ world.fds = 0
    /\ world.scans[1].content = << 2, 0, 0, 0, 65 >>

\* the document has `word` in it
Contains(doc, word) ==
    \E i \in 1..(Len(doc) - Len(word) + 1) : SubSeq(doc, i, i + Len(word) - 1) = word

\* the documents with no recognised control word (both begin with \obj)
PlainScenarios ==
    {n \in ScenarioNames : ~Contains(Scenarios[n], << "\\", "o", "b", "j" >>)}

\* C21 (stored frames are never default): in every state each of the
\* stack_cnt frames held in the stack buffer differs from the default frame,
\* stack_cnt is at most the number of open groups that were opened from a
\* frame that was not default, and for a document with no recognised control
\* word stack_cnt is 0 at any depth.
C21_StoredNonDefault ==
    /\ stack.stack_cnt = Len(stack.states)
    /\ \A i \in DOMAIN stack.states : NonDefault(stack.states[i])
    /\ stack.stack_cnt <= Cardinality({i \in DOMAIN opened : NonDefault(opened[i])})
    /\ scenario \in PlainScenarios => stack.stack_cnt = 0

\* three groups are open, the first opened from the default frame and the
\* two inside it from frames that had seen \object: two frames are stored
C21_Witness ==
    /\ pc = "parse" /\ scenario = "nested"
    /\ Len(opened) = 3 /\ stack.elements = 3
    /\ ~NonDefault(opened[1]) /\ NonDefault(opened[2]) /\ NonDefault(opened[3])
    /\ stack.stack_cnt = 2
    /\ state.default_elements = 0

\* a step of PARSE_MAIN that does not end the scan: a '{' read in a frame
\* with an extractor context leaves the new working frame without callbacks
\* and without context; the '}' that matches it gives the working frame the
\* callbacks and the context that frame had at the '{', every field of the
\* context as it was; and no step changes a frame while it is stored
C22_GroupStep ==
    pc = "parse" /\ pc' = "parse" /\ rest # << >> =>
        /\ \A i \in DOMAIN stack.states \cap DOMAIN stack'.states :
                stack'.states[i] = stack.states[i]
        /\ state.parse_state = "PARSE_MAIN" /\ rest[1] = "{" /\ state.cb_data.live =>
                /\ ~state'.cb_begin /\ ~state'.cb_process /\ ~state'.cb_end
                /\ state'.cb_data = NoData
        /\ state.parse_state = "PARSE_MAIN" /\ rest[1] = "}" /\ opened # << >>
              /\ opened[Len(opened)].cb_data.live =>
                LET f == opened[Len(opened)]
                IN /\ state'.cb_begin = f.cb_begin
                   /\ state'.cb_process = f.cb_process
                   /\ state'.cb_end = f.cb_end
                   /\ state'.cb_data = f.cb_data

\* C22 (nested groups leave the enclosing extractor untouched): when '{' is
\* read in a frame with an extractor context, the frames of the nested group
\* start without that context, so no byte inside the group is delivered to
\* it; the stored frame is not changed while the group is open; and after
\* the matching '}' the working frame has the same callbacks and the same
\* context, with internal_state, bytes_read, desc_len, the partial nibble,
\* the descriptor and the file as they were.
C22_NestedUntouched == [][C22_GroupStep]_vars

\* a nested group that had hex digits, an extractor of its own and a group
\* inside it has been closed: the enclosing extractor is back with its open
\* temp file and the nibble it had decoded before the group
C22_Witness ==
    /\ pc = "parse" /\ scenario = "inner" /\ ev.op = "pop"
    /\ opened # << >> /\ Len(opened) = 1
    /\ state.cb_data.live /\ state.cb_data.fd > 0
    /\ state.cb_data.internal_state = "DUMP_DATA"
    /\ state.cb_data.has_partial

\* the sum of default_elements over the stored frames
RECURSIVE StoredDefaults(_)
StoredDefaults(frames) ==
    IF frames = << >> THEN 0
    ELSE Head(frames).default_elements + StoredDefaults(Tail(frames))

\* the '}' that matches a '{' gives the working frame the callbacks, the
\* context, the parse state and default_elements it had before that '{'
C23_PopStep ==
    pc = "parse" /\ pc' = "parse" /\ rest # << >> /\ rest[1] = "}"
      /\ state.parse_state = "PARSE_MAIN" /\ opened # << >> /\ ~stack.warned =>
        LET f == opened[Len(opened)]
        IN /\ state'.cb_begin = f.cb_begin
           /\ state'.cb_process = f.cb_process
           /\ state'.cb_end = f.cb_end
           /\ state'.cb_data = f.cb_data
           /\ state'.parse_state = f.parse_state
           /\ state'.default_elements = f.default_elements

\* C23 (stack accounting): while the scan runs and no '}' has been read at
\* depth 0, elements is the number of open groups and equals stack_cnt plus
\* the default_elements of the working frame plus the default_elements of
\* all stored frames; and the pop at the '}' that matches a '{' restores the
\* working frame's callbacks, context, parse state and default_elements to
\* what they were before the push at that '{'.
C23_Accounting ==
    /\ [](pc = "parse" /\ ~stack.warned =>
            /\ stack.elements = Len(opened)
            /\ stack.elements = stack.stack_cnt + state.default_elements
                                    + StoredDefaults(stack.states))
    /\ [][C23_PopStep]_vars

\* the second of three nested groups has been closed: the frame stored at
\* its '{' is the working frame again, with the default frame it counts
C23_Witness ==
    /\ pc = "parse" /\ scenario = "nested" /\ ev.op = "pop"
    /\ ~stack.warned
    /\ stack.elements = 1 /\ stack.stack_cnt = 0
    /\ state.default_elements = 1 /\ state.encounteredTopLevel = 1

\* the callers that wrote to the store, and what a caller wrote
Wrote(t) == {cs.writes[i][2] : i \in {j \in DOMAIN cs.writes : cs.writes[j][1] = t}}

\* the content of the store, the mutex aside
StoreContent(c) == << c.store.loaded, c.store.system_certs, c.store.trusted_certs >>

\* once loaded is set the content of the store does not change
C24_LoadedStep ==
    pc = "cert" /\ ~cs'.failed /\ cs.store.loaded =>
        StoreContent(cs') = StoreContent(cs) /\ cs'.writes = cs.writes

\* C24 (cert_store_load initialises at most once): with no mutex operation
\* failing, every write to the store is the first mutex holder's and no field
\* is written twice; that caller resets system_certs and sets loaded; every
\* other caller that obtained the store saw loaded set, wrote nothing and
\* returns 0; a caller that has returned does not hold the mutex, and one that
\* did not obtain the store returns CL_EOPEN without having taken it; once
\* loaded is set the content of the store never changes.
C24_InitOnce ==
    /\ [](pc = "cert" /\ ~cs.failed =>
            /\ \A i \in DOMAIN cs.writes : cs.writes[i][1] = cs.order[1]
            /\ \A i, j \in DOMAIN cs.writes :
                 cs.writes[i][2] = cs.writes[j][2] => i = j
            /\ cs.store.loaded <=> \E t \in Callers : "loaded" \in Wrote(t)
            /\ \A t \in Callers :
                 LET c == cs.callers[t]
                 IN c.at = "returned" =>
                      /\ cs.store.mutex # t
                      /\ ~c.locked
                      /\ IF ~c.store
                         THEN c.ret = CL_EOPEN
                              /\ \A i \in DOMAIN cs.order : cs.order[i] # t
                         ELSE /\ c.ret = CL_CLEAN
                              /\ cs.store.loaded
                              /\ IF t = cs.order[1]
                                 THEN ~c.saw
                                      /\ {"system_certs", "loaded"} \subseteq Wrote(t)
                                 ELSE c.saw /\ Wrote(t) = {})
    /\ [][C24_LoadedStep]_vars

\* both callers have returned 0 with no mutex failure: the second caller
\* took the mutex first and installed the trusted certificates
C24_Witness ==
    /\ pc = "cert" /\ ~cs.failed
    /\ \A t \in 1..2 : cs.callers[t].at = "returned" /\ cs.callers[t].store
                         /\ cs.callers[t].ret = CL_CLEAN
    /\ cs.order = << 2, 1 >>
    /\ cs.writes = << << 2, "system_certs" >>, << 2, "trusted_certs" >>,
                      << 2, "loaded" >> >>
    /\ cs.store = [loaded |-> TRUE,
                   system_certs |-> [count |-> 0, certificates |-> "NULL"],
                   trusted_certs |-> [count |-> MaxCerts],
                   mutex |-> 0]

====
